---- MODULE Spec2Model ----
(***************************************************************************)
(* SkiaCanvas (libs/hwui/SkiaCanvas.cpp): the partial save/restore engine  *)
(* layered on SkCanvas.  SkCanvas only offers a save/restore pair that     *)
(* rolls back matrix and clip together; SkiaCanvas keeps a stack of        *)
(* SaveRec (mSaveStack) and a log of Clip (mClipStack) so that a restore   *)
(* can keep the matrix and/or the clip of the frame it closes.             *)
(*                                                                         *)
(* Geometry is one-dimensional: a device is a set of pixels, a matrix is a *)
(* translation, a shape is a set of local coordinates, and the clip of a   *)
(* backend frame is the set of device pixels it lets through.              *)
(***************************************************************************)
EXTENDS Integers, Sequences, FiniteSets, TLC

VARIABLES
    mCanvas,      \* SkCanvas: its stack of frames, top last; [matrix, clip]
    mSaveStack,   \* SkiaCanvas::mSaveStack: sequence of SaveRec, top last
    mClipStack,   \* SkiaCanvas::mClipStack: sequence of Clip
    pc,           \* "idle", or "restoreToCount" while that call's loop runs
    restoreCount, \* the argument of the restoreToCount that is running, else 0
    open,         \* history: per backend frame, how it was opened
    last          \* history: the call that produced this state

vars == <<mCanvas, mSaveStack, mClipStack, pc, restoreCount, open, last>>

---------------------------------------------------------------------------
(* Bounds of the exploration *)

\* the deepest backend save count explored
MaxDepth == 3
\* the longest clip log explored
MaxLog == 2
\* the deepest backend save count explored with save, restore and clips alone
MaxNest == 4

\* the largest length of a float array handed to drawPoints or drawLines
MaxCount == 5

\* the pixels of the largest device
Device == {0}
\* the translations a client installs
Matrices == {0, 1}

---------------------------------------------------------------------------
(* SkCanvas, the rendering backend *)

Identity == 0

\* SkClipOp values used by clients
kIntersect == "kIntersect"
kDifference == "kDifference"
ClipOps == {kIntersect, kDifference}

\* the device-space image of a local shape under a matrix; the backend keeps
\* the part of it that lies on the largest device
MapShape(pts, m) == {p + m : p \in pts} \cap Device

\* a clip region narrowed by a device-space pixel set under a SkClipOp
ApplyOp(region, dev, op) ==
    IF op = kIntersect THEN region \cap dev ELSE region \ dev

\* new SkCanvas(bitmap): one frame, identity matrix, clip = the bitmap's bounds
NewSkCanvas(bounds) == <<[matrix |-> Identity, clip |-> bounds]>>

SkTop(c) == c[Len(c)]

SkGetSaveCount(c) == Len(c)

SkGetTotalMatrix(c) == SkTop(c).matrix

SkSetMatrix(c, m) == [c EXCEPT ![Len(c)].matrix = m]

SkConcat(c, m) == SkSetMatrix(c, SkGetTotalMatrix(c) + m)

\* SkCanvas::save pushes a copy of the top frame
SkSave(c) == Append(c, SkTop(c))

\* SkCanvas::save returns the save count as it was before the save
SkSaveResult(c) == Len(c)

\* SkCanvas::restore pops the top frame; at the baseline depth it does nothing
SkRestore(c) == IF Len(c) > 1 THEN SubSeq(c, 1, Len(c) - 1) ELSE c

\* SkCanvas::clipRect / clipRRect / clipPath: the shape is mapped by the
\* total matrix and narrows the top frame's clip
SkClip(c, pts, op) ==
    [c EXCEPT ![Len(c)].clip = ApplyOp(@, MapShape(pts, SkGetTotalMatrix(c)), op)]

\* the clip region of the top frame
SkClipRegion(c) == SkTop(c).clip

SkIsClipEmpty(c) == SkClipRegion(c) = {}

\* SkCanvas::replayClips hands the visitor the active clip in device space:
\* here one element, the region itself, to intersect with
SkReplayClips(c) == <<[dev |-> SkClipRegion(c), op |-> kIntersect]>>

---------------------------------------------------------------------------
(* SaveFlags (the legacy, independent matrix/clip flags) *)

Matrix == "Matrix"
Clip == "Clip"
HasAlphaLayer == "HasAlphaLayer"
ClipToLayer == "ClipToLayer"
MatrixClip == {Matrix, Clip}

\* the flag sets a client passes to save
SaveFlagSets == SUBSET {Matrix, Clip, HasAlphaLayer}

NULL == [saveCount |-> 0, saveFlags |-> {}, clipIndex |-> 0]

---------------------------------------------------------------------------
(* SkiaCanvas *)

getSaveCount(c) == SkGetSaveCount(c)

\* a variant that takes the top SaveRec whatever the backend's save count is
topSaveRec(c, ss) == IF ss # <<>> THEN ss[Len(ss)] ELSE NULL

\* a variant that looks for the save count as it was before the record's save
currentSaveRecBelow(c, ss) ==
    LET rec == IF ss # <<>> THEN ss[Len(ss)] ELSE NULL
        currentSaveCount == SkGetSaveCount(c)
    IN  IF rec # NULL /\ rec.saveCount = currentSaveCount - 1 THEN rec ELSE NULL

\* the top SaveRec if it belongs to the backend's top frame, else NULL
currentSaveRec(c, ss) ==
    LET rec == IF ss # <<>> THEN ss[Len(ss)] ELSE NULL
        currentSaveCount == SkGetSaveCount(c)
    IN  IF rec # NULL /\ rec.saveCount = currentSaveCount THEN rec ELSE NULL

\* a variant that records the save count one too high
recordPartialSaveAhead(c, ss, cs, flags) ==
    LET masked == flags \cap MatrixClip
    IN  IF masked = MatrixClip THEN ss
        ELSE Append(ss, [saveCount |-> SkGetSaveCount(c) + 1,
                         saveFlags |-> masked,
                         clipIndex |-> Len(cs)])

\* a variant that compares the flags without masking them first
recordPartialSaveUnmasked(c, ss, cs, flags) ==
    IF flags = MatrixClip THEN ss
    ELSE Append(ss, [saveCount |-> SkGetSaveCount(c),
                     saveFlags |-> flags \cap MatrixClip,
                     clipIndex |-> Len(cs)])

\* a variant that records the save count as it was before the backend save
recordPartialSaveAtResult(c, ss, cs, flags) ==
    LET masked == flags \cap MatrixClip
    IN  IF masked = MatrixClip THEN ss
        ELSE Append(ss, [saveCount |-> SkGetSaveCount(c) - 1,
                         saveFlags |-> masked,
                         clipIndex |-> Len(cs)])

\* the save stack after recordPartialSave(flags), called after the backend save
recordPartialSave(c, ss, cs, flags) ==
    LET masked == flags \cap MatrixClip
    IN  IF masked = MatrixClip THEN ss
        ELSE Append(ss, [saveCount |-> SkGetSaveCount(c),
                         saveFlags |-> masked,
                         clipIndex |-> Len(cs)])

\* SkiaCanvas::Clip, as built by its three constructors
ClipOf(type, pts, op, m) == [type |-> type, op |-> op, matrix |-> m, pts |-> pts]

\* a variant that logs every clip, whatever the current record
recordClipAlways(c, ss, cs, type, pts, op) ==
    Append(cs, ClipOf(type, pts, op, SkGetTotalMatrix(c)))

\* a variant that goes by the top record even when it is not the current one
recordClipUnderTop(c, ss, cs, type, pts, op) ==
    LET rec == IF ss # <<>> THEN ss[Len(ss)] ELSE NULL
    IN  IF rec # NULL /\ ~(Clip \in rec.saveFlags)
        THEN Append(cs, ClipOf(type, pts, op, SkGetTotalMatrix(c)))
        ELSE cs

\* a variant that reads the Clip flag the other way round
recordClipFlagSet(c, ss, cs, type, pts, op) ==
    LET rec == currentSaveRec(c, ss)
    IN  IF rec # NULL /\ Clip \in rec.saveFlags
        THEN Append(cs, ClipOf(type, pts, op, SkGetTotalMatrix(c)))
        ELSE cs

\* the clip log after recordClip(clip, op), called before the backend clip
recordClip(c, ss, cs, type, pts, op) ==
    LET rec == currentSaveRec(c, ss)
    IN  IF rec # NULL /\ ~(Clip \in rec.saveFlags)
        THEN Append(cs, ClipOf(type, pts, op, SkGetTotalMatrix(c)))
        ELSE cs

\* a variant that clips under whatever matrix is installed
ClipApplyCurrentMatrix(c, clip) == SkClip(c, clip.pts, clip.op)

\* Clip::apply: install the clip's matrix, then clip by its shape
ClipApply(c, clip) == SkClip(SkSetMatrix(c, clip.matrix), clip.pts, clip.op)

RECURSIVE ApplyClips(_, _)
ApplyClips(c, clips) ==
    IF clips = <<>> THEN c
    ELSE ApplyClips(ClipApply(c, Head(clips)), Tail(clips))

\* a variant that erases the replayed range after every replay
eraseAlways(rec) == TRUE

\* a variant that leaves the replayed range in the log after every replay
eraseNever(rec) == FALSE

\* a variant that erases the replayed range only under a record with Clip
eraseUnderRecord(rec) == rec # NULL /\ Clip \in rec.saveFlags

\* the log range [clipStartIndex, end) is erased unless the record that is
\* current after the restore persists clips too
eraseAfterReplay(rec) == rec = NULL \/ Clip \in rec.saveFlags

\* a variant that erases the whole log rather than the replayed range
applyPersistentClipsEraseAll(c, ss, cs, clipStartIndex) ==
    LET saveMatrix == SkGetTotalMatrix(c)
        replayed == ApplyClips(c, SubSeq(cs, clipStartIndex + 1, Len(cs)))
        c2 == SkSetMatrix(replayed, saveMatrix)
        rec == currentSaveRec(c2, ss)
    IN  [canvas |-> c2,
         clipStack |-> IF eraseAfterReplay(rec) THEN <<>> ELSE cs]

\* a variant that leaves the matrix of the last replayed clip installed
applyPersistentClipsStray(c, ss, cs, clipStartIndex) ==
    LET replayed == ApplyClips(c, SubSeq(cs, clipStartIndex + 1, Len(cs)))
        rec == currentSaveRec(replayed, ss)
    IN  [canvas |-> replayed,
         clipStack |-> IF eraseAfterReplay(rec)
                       THEN SubSeq(cs, 1, clipStartIndex) ELSE cs]

\* applyPersistentClips(clipStartIndex): the canvas and the log it leaves
applyPersistentClips(c, ss, cs, clipStartIndex) ==
    LET saveMatrix == SkGetTotalMatrix(c)
        replayed == ApplyClips(c, SubSeq(cs, clipStartIndex + 1, Len(cs)))
        c2 == SkSetMatrix(replayed, saveMatrix)
        rec == currentSaveRec(c2, ss)
    IN  [canvas |-> c2,
         clipStack |-> IF eraseAfterReplay(rec)
                       THEN SubSeq(cs, 1, clipStartIndex) ELSE cs]

\* a variant that reads the Clip flag of the record the other way round
preserveClipFlagSet(rec) == Clip \in rec.saveFlags

\* a variant that reads the Matrix flag the other way round
preserveMatrixFlagSet(rec) == Matrix \in rec.saveFlags

\* the two locals of restore: a flag that is absent asks to keep that aspect
preserveMatrix(rec) == ~(Matrix \in rec.saveFlags)
preserveClip(rec) == ~(Clip \in rec.saveFlags)

\* a variant that pops the top record even when it is not the current one
restoreResultPopping(c, ss, cs) ==
    [canvas |-> SkRestore(c),
     saveStack |-> IF ss = <<>> THEN ss ELSE SubSeq(ss, 1, Len(ss) - 1),
     clipStack |-> cs]

\* a variant that leaves the record of the frame it closes on the save stack
restoreResultKeeping(c, ss, cs) ==
    LET rec == currentSaveRec(c, ss)
    IN  IF rec = NULL
        THEN [canvas |-> SkRestore(c), saveStack |-> ss, clipStack |-> cs]
        ELSE
          LET savedMatrix == SkGetTotalMatrix(c)
              c1 == SkRestore(c)
              c2 == IF preserveMatrix(rec) THEN SkSetMatrix(c1, savedMatrix) ELSE c1
              r == applyPersistentClips(c2, ss, cs, rec.clipIndex)
          IN  IF preserveClip(rec)
              THEN [canvas |-> r.canvas, saveStack |-> ss, clipStack |-> r.clipStack]
              ELSE [canvas |-> c2, saveStack |-> ss, clipStack |-> cs]

\* SkiaCanvas::restore: the canvas, the save stack and the log it leaves
restoreResult(c, ss, cs) ==
    LET rec == currentSaveRec(c, ss)
    IN  IF rec = NULL
        THEN [canvas |-> SkRestore(c), saveStack |-> ss, clipStack |-> cs]
        ELSE
          LET savedMatrix == SkGetTotalMatrix(c)
              clipIndex == rec.clipIndex
              c1 == SkRestore(c)
              ss1 == SubSeq(ss, 1, Len(ss) - 1)
              c2 == IF preserveMatrix(rec) THEN SkSetMatrix(c1, savedMatrix) ELSE c1
              r == applyPersistentClips(c2, ss1, cs, clipIndex)
          IN  IF preserveClip(rec)
              THEN [canvas |-> r.canvas, saveStack |-> ss1, clipStack |-> r.clipStack]
              ELSE [canvas |-> c2, saveStack |-> ss1, clipStack |-> cs]

\* a variant that also loops when the save count equals restoreCount
restoreToCountLoopsAtCount(c, n) == SkGetSaveCount(c) >= n

\* the loop condition of restoreToCount
restoreToCountLoops(c, n) == SkGetSaveCount(c) > n

\* the loop of restoreToCount(n), run from state x = [canvas, saveStack,
\* clipStack] until its condition fails or an iteration changes nothing (from
\* where the loop repeats that iteration for ever)
RECURSIVE restoreToCountResult(_, _)
restoreToCountResult(x, n) ==
    LET y == restoreResult(x.canvas, x.saveStack, x.clipStack)
    IN  IF restoreToCountLoops(x.canvas, n) /\ y # x
        THEN restoreToCountResult(y, n)
        ELSE x

\* the flag sets a client passes to saveLayer and saveLayerAlpha
LayerFlagSets == {{}, {ClipToLayer}, MatrixClip, MatrixClip \cup {ClipToLayer}}

\* the paints of a layer: none, or one that only sets the alpha
nullptr == [alpha |-> -1]
alphaPaint(alpha) == [alpha |-> alpha]
Alphas == {-1, 128, 255}
LayerPaints == {nullptr, alphaPaint(128)}

\* static_cast<unsigned>(alpha) < 0xFF: a negative int wraps to 2^32 + alpha,
\* which is above 0xFF, so only 0 .. 0xFE pass
alphaBelowOpaque(alpha) == alpha >= 0 /\ alpha < 255

\* layerFlags: the SaveLayerFlags saveLayer hands the backend
kDontClipToLayer == "kDontClipToLayer_Legacy_SaveLayerFlag"
layerFlags(flags) == IF ~(ClipToLayer \in flags) THEN {kDontClipToLayer} ELSE {}

\* SkCanvas::saveLayer pushes a frame; unless told not to, the layer's bounds
\* narrow the clip of the new frame
SkSaveLayer(c, bounds, lflags) ==
    IF kDontClipToLayer \in lflags THEN SkSave(c)
    ELSE SkClip(SkSave(c), bounds, kIntersect)

\* ClipCopier: every element the old canvas replays is issued on the new one
RECURSIVE ClipCopier(_, _)
ClipCopier(dst, elems) ==
    IF elems = <<>> THEN dst
    ELSE ClipCopier(SkClip(dst, Head(elems).dev, Head(elems).op), Tail(elems))

\* the bitmaps a client hands setBitmap, and the device bounds of each
Bitmaps == {"null", "full"}
BitmapBounds(b) == IF b = "null" THEN {} ELSE Device
isNull(b) == b = "null"

\* the canvas setBitmap(bitmap) installs
setBitmapCanvas(c, b) ==
    IF ~isNull(b)
    THEN ClipCopier(SkSetMatrix(NewSkCanvas(BitmapBounds(b)), SkGetTotalMatrix(c)),
                    SkReplayClips(c))
    ELSE NewSkCanvas(BitmapBounds(b))

\* what setBitmap leaves of the save stack and of the clip log
setBitmapSaveStack(ss) == <<>>
setBitmapClipStack(cs) == cs

---------------------------------------------------------------------------
(* The shapes clients clip by *)

\* clipRect(rect, kIntersect): under the identity the device stays inside the
\* rect, under a translation by 1 the rect misses it and the clip gets empty.
\* clipPath(path, kDifference): under the identity the path covers the device
\* and the clip gets empty, under a translation by 1 the path misses it.
Rects == {{0}}
Paths == {[isRRect |-> FALSE, pts |-> {0}]}
ClipRectArgs == {<<rect, kIntersect>> : rect \in Rects}
ClipPathArgs == {<<path, kDifference>> : path \in Paths}
LayerBounds == {0}

---------------------------------------------------------------------------
(* History kept for stating the properties *)

\* per backend frame: how it was opened, the matrix and clip region in effect
\* just before it was opened and, for a frame opened by a save without the
\* Clip flag, the clip calls made while it was on top (issued) and the ones it
\* took over from frames of that kind closed directly inside it (kept); a
\* clip call is kept as its device-space pixels, its op and the call's name
Frame(kind, flags, m, region) ==
    [kind |-> kind, flags |-> flags, issued |-> <<>>, kept |-> <<>>,
     preMatrix |-> m, preRegion |-> region]
BaseFrame == Frame("base", {}, Identity, {})
NoFrame == Frame("none", {}, Identity, {})

\* the frame was opened by a save that asks to keep the clip
KeepsClip(f) == f.kind = "save" /\ ~(Clip \in f.flags)

\* the frames left when the top one is closed
PopOpen(o) ==
    IF Len(o) <= 1 THEN o
    ELSE LET g == o[Len(o)]
             rest == SubSeq(o, 1, Len(o) - 1)
         IN  IF KeepsClip(g) /\ KeepsClip(rest[Len(rest)])
             THEN [rest EXCEPT ![Len(rest)].kept = @ \o g.kept \o g.issued]
             ELSE rest

\* how the frame just above save count n was opened, if there is one
OpenedAbove(o, n) ==
    IF n >= 1 /\ n < Len(o) THEN Frame(o[n + 1].kind, o[n + 1].flags, Identity, {})
    ELSE NoFrame

RECURSIVE PopOpenTo(_, _)
PopOpenTo(o, depth) == IF Len(o) > depth /\ Len(o) > 1 THEN PopOpenTo(PopOpen(o), depth) ELSE o

\* the call that produced the state: its name, the frame it closed, the
\* matrix, clip region and save count just before it, the number of log
\* entries it replayed, its arguments and its result
LastCall(op, closed, m, region, count, replayed, arg, n, ret) ==
    [op |-> op, closed |-> closed, matrix |-> m, region |-> region, count |-> count,
     replayed |-> replayed, arg |-> arg, n |-> n, ret |-> ret]
Plain(op, ret) == LastCall(op, NoFrame, Identity, {}, 0, 0, "", -1, ret)

Region == SkClipRegion(mCanvas)
TotalMatrix == SkGetTotalMatrix(mCanvas)
Idle == pc = "idle"

---------------------------------------------------------------------------
(* The operations *)

Init ==
    /\ mCanvas = NewSkCanvas(Device)
    /\ mSaveStack = <<>>
    /\ mClipStack = <<>>
    /\ pc = "idle"
    /\ restoreCount = 0
    /\ open = <<BaseFrame>>
    /\ last = Plain("init", 0)

\* save(flags), explored up to a backend save count of depth
SaveCall(flags, depth) ==
    /\ Idle
    /\ Len(mCanvas) < depth
    /\ LET c1 == SkSave(mCanvas)
       IN  /\ mCanvas' = c1
           /\ mSaveStack' = recordPartialSave(c1, mSaveStack, mClipStack, flags)
    /\ open' = Append(open, Frame("save", flags \cap MatrixClip, TotalMatrix, Region))
    /\ last' = Plain("save", SkSaveResult(mCanvas))
    /\ UNCHANGED <<mClipStack, pc, restoreCount>>

save(flags) == SaveCall(flags, MaxDepth)

\* a variant of SaveLayerCall that records a partial save as save does
SaveLayerCallRecording(name, paint, flags) ==
    /\ Idle
    /\ Len(mCanvas) < MaxDepth
    /\ LET c1 == SkSaveLayer(mCanvas, LayerBounds, layerFlags(flags))
       IN  /\ mCanvas' = c1
           /\ mSaveStack' = recordPartialSave(c1, mSaveStack, mClipStack, flags)
    /\ open' = Append(open, Frame("layer", flags \cap MatrixClip, TotalMatrix, Region))
    /\ last' = Plain(name, SkSaveResult(mCanvas))
    /\ UNCHANGED <<mClipStack, pc, restoreCount>>

\* saveLayer: the backend saveLayer with the bounds, the paint and
\* layerFlags(flags); the paint is only used when the layer is drawn back
SaveLayerCall(name, paint, flags) ==
    /\ Idle
    /\ Len(mCanvas) < MaxDepth
    /\ mCanvas' = SkSaveLayer(mCanvas, LayerBounds, layerFlags(flags))
    /\ open' = Append(open, Frame("layer", flags \cap MatrixClip, TotalMatrix, Region))
    /\ last' = Plain(name, SkSaveResult(mCanvas))
    /\ UNCHANGED <<mSaveStack, mClipStack, pc, restoreCount>>

saveLayer(paint, flags) == SaveLayerCall("saveLayer", paint, flags)

\* saveLayerAlpha: an alpha below 0xFF, read as unsigned, makes a paint of it
saveLayerAlpha(alpha, flags) ==
    IF alphaBelowOpaque(alpha)
    THEN SaveLayerCall("saveLayerAlpha", alphaPaint(alpha), flags)
    ELSE SaveLayerCall("saveLayerAlpha", nullptr, flags)

\* the number of log entries the next restore replays
Replayed ==
    LET rec == currentSaveRec(mCanvas, mSaveStack)
    IN  IF rec # NULL /\ ~(Clip \in rec.saveFlags) /\ rec.clipIndex <= Len(mClipStack)
        THEN Len(mClipStack) - rec.clipIndex ELSE 0

\* one call of SkiaCanvas::restore
RestoreCall ==
    /\ \E r \in {restoreResult(mCanvas, mSaveStack, mClipStack)} :
           /\ mCanvas' = r.canvas
           /\ mSaveStack' = r.saveStack
           /\ mClipStack' = r.clipStack
    /\ open' = PopOpen(open)
    /\ last' = LastCall("restore",
                        IF Len(open) > 1 THEN open[Len(open)] ELSE NoFrame,
                        TotalMatrix, Region, Len(mCanvas), Replayed, "", -1, 0)

restore ==
    /\ Idle
    /\ RestoreCall
    /\ UNCHANGED <<pc, restoreCount>>

\* restoreToCount(n) returns when its loop condition fails; when an iteration
\* leaves the condition true and changes nothing, the call never returns
restoreToCount(n) ==
    /\ Idle
    /\ \E r \in {restoreToCountResult([canvas |-> mCanvas, saveStack |-> mSaveStack,
                                        clipStack |-> mClipStack], n)} :
           /\ mCanvas' = r.canvas
           /\ mSaveStack' = r.saveStack
           /\ mClipStack' = r.clipStack
           /\ pc' = IF restoreToCountLoops(r.canvas, n) THEN "restoreToCount" ELSE "idle"
           /\ restoreCount' = IF restoreToCountLoops(r.canvas, n) THEN n ELSE 0
           /\ open' = PopOpenTo(open, Len(r.canvas))
    /\ last' = LastCall("restoreToCount", OpenedAbove(open, n), Identity, {},
                        Len(mCanvas), 0, "", n, 0)

\* an iteration of the loop of a restoreToCount that never returns
restoreToCountSpin ==
    /\ pc = "restoreToCount"
    /\ restoreToCountLoops(mCanvas, restoreCount)
    /\ RestoreCall
    /\ UNCHANGED <<pc, restoreCount>>

setMatrix(m) ==
    /\ Idle
    /\ mCanvas' = SkSetMatrix(mCanvas, m)
    /\ last' = Plain("setMatrix", 0)
    /\ UNCHANGED <<mSaveStack, mClipStack, pc, restoreCount, open>>

concat(m) ==
    /\ Idle
    /\ TotalMatrix + m \in Matrices
    /\ mCanvas' = SkConcat(mCanvas, m)
    /\ last' = Plain("concat", 0)
    /\ UNCHANGED <<mSaveStack, mClipStack, pc, restoreCount, open>>

\* recordClip, then the backend clip; the result is !isClipEmpty
ClipCall(name, type, pts, op) ==
    /\ Idle
    /\ Len(recordClip(mCanvas, mSaveStack, mClipStack, type, pts, op)) <= MaxLog
    /\ mClipStack' = recordClip(mCanvas, mSaveStack, mClipStack, type, pts, op)
    /\ mCanvas' = SkClip(mCanvas, pts, op)
    /\ open' = [open EXCEPT ![Len(open)].issued =
                    IF KeepsClip(open[Len(open)])
                    THEN Append(@, [dev |-> MapShape(pts, TotalMatrix), op |-> op,
                                    call |-> name])
                    ELSE @]
    /\ last' = Plain(name, IF SkIsClipEmpty(mCanvas') THEN 0 ELSE 1)
    /\ UNCHANGED <<mSaveStack, pc, restoreCount>>

clipRect(rect, op) == ClipCall("clipRect", "Rect", rect, op)

clipPath(path, op) ==
    IF path.isRRect THEN ClipCall("clipPath", "RRect", path.pts, op)
    ELSE ClipCall("clipPath", "Path", path.pts, op)

setBitmap(bitmap) ==
    /\ Idle
    /\ mCanvas' = setBitmapCanvas(mCanvas, bitmap)
    /\ mSaveStack' = setBitmapSaveStack(mSaveStack)
    /\ mClipStack' = setBitmapClipStack(mClipStack)
    /\ open' = <<BaseFrame>>
    /\ last' = LastCall("setBitmap", NoFrame, TotalMatrix, Region, Len(mCanvas), 0, bitmap, -1, 0)
    /\ UNCHANGED <<pc, restoreCount>>

---------------------------------------------------------------------------
(* The draw operations: each is the number of draw calls it makes on mCanvas *)

\* SkPaint, as far as SkPaint::nothingToDraw tells paints apart
Paints == {"nothingToDraw", "visible"}
nothingToDraw(paint) == paint = "nothingToDraw"

\* the lengths of the float arrays and the radii clients hand in
Counts == 0..MaxCount
Radii == {0, 1}

kPoints_PointMode == "kPoints_PointMode"
kLines_PointMode == "kLines_PointMode"

drawPaintCalls(paint) == 1

\* drawPoints(points, count, paint, mode)
drawPointsCalls(count, paint, mode) ==
    IF count < 2 \/ nothingToDraw(paint) THEN 0 ELSE 1

drawPointCalls(paint) == 1

drawLineCalls(paint) == 1

\* a variant of drawLines that leaves the checks to drawPoints
drawLinesCallsUnchecked(count, paint) == drawPointsCalls(count, paint, kLines_PointMode)

drawLinesCalls(count, paint) ==
    IF count < 4 \/ nothingToDraw(paint) THEN 0
    ELSE drawPointsCalls(count, paint, kLines_PointMode)

\* drawRect, drawRegion, drawRoundRect, drawOval, drawArc and drawPath
drawShapeCalls(paint) == IF nothingToDraw(paint) THEN 0 ELSE 1

drawCircleCalls(radius, paint) ==
    IF radius <= 0 \/ nothingToDraw(paint) THEN 0 ELSE 1

\* a draw operation: nothing of the canvas state is written
DrawCall(name, paint, count, calls) ==
    /\ Idle
    /\ last' = LastCall(name, NoFrame, Identity, {}, 0, 0, paint, count, calls)
    /\ UNCHANGED <<mCanvas, mSaveStack, mClipStack, pc, restoreCount, open>>

drawPaint(paint) == DrawCall("drawPaint", paint, -1, drawPaintCalls(paint))
drawPoint(paint) == DrawCall("drawPoint", paint, -1, drawPointCalls(paint))
drawPoints(count, paint) ==
    DrawCall("drawPoints", paint, count, drawPointsCalls(count, paint, kPoints_PointMode))
drawLine(paint) == DrawCall("drawLine", paint, -1, drawLineCalls(paint))
drawLines(count, paint) == DrawCall("drawLines", paint, count, drawLinesCalls(count, paint))
drawRect(paint) == DrawCall("drawRect", paint, -1, drawShapeCalls(paint))
drawRegion(paint) == DrawCall("drawRegion", paint, -1, drawShapeCalls(paint))
drawRoundRect(paint) == DrawCall("drawRoundRect", paint, -1, drawShapeCalls(paint))
drawCircle(radius, paint) == DrawCall("drawCircle", paint, radius, drawCircleCalls(radius, paint))
drawOval(paint) == DrawCall("drawOval", paint, -1, drawShapeCalls(paint))
drawArc(paint) == DrawCall("drawArc", paint, -1, drawShapeCalls(paint))
drawPath(paint) == DrawCall("drawPath", paint, -1, drawShapeCalls(paint))

\* the draw operations, on a canvas whose matrix and clip are being set
NextDraw ==
    \/ \E paint \in Paints : drawPaint(paint)
    \/ \E paint \in Paints : drawPoint(paint)
    \/ \E count \in Counts, paint \in Paints : drawPoints(count, paint)
    \/ \E paint \in Paints : drawLine(paint)
    \/ \E count \in Counts, paint \in Paints : drawLines(count, paint)
    \/ \E paint \in Paints : drawRect(paint)
    \/ \E paint \in Paints : drawRegion(paint)
    \/ \E paint \in Paints : drawRoundRect(paint)
    \/ \E radius \in Radii, paint \in Paints : drawCircle(radius, paint)
    \/ \E paint \in Paints : drawOval(paint)
    \/ \E paint \in Paints : drawArc(paint)
    \/ \E paint \in Paints : drawPath(paint)
    \/ \E m \in Matrices : setMatrix(m)
    \/ \E a \in ClipRectArgs : clipRect(a[1], a[2])
    \/ \E a \in ClipPathArgs : clipPath(a[1], a[2])

\* save, restore and the clip calls, nested one frame deeper
NextNest ==
    \/ \E flags \in {{Matrix}, {Clip}, MatrixClip} : SaveCall(flags, MaxNest)
    \/ restore
    \/ \E m \in Matrices : setMatrix(m)
    \/ \E a \in ClipRectArgs : clipRect(a[1], a[2])
    \/ \E a \in ClipPathArgs : clipPath(a[1], a[2])

---------------------------------------------------------------------------

\* every operation but setBitmap
NextCore ==
    \/ \E flags \in SaveFlagSets : save(flags)
    \/ \E paint \in LayerPaints, flags \in LayerFlagSets : saveLayer(paint, flags)
    \/ \E alpha \in Alphas, flags \in LayerFlagSets : saveLayerAlpha(alpha, flags)
    \/ restore
    \/ \E n \in 0..MaxDepth : restoreToCount(n)
    \/ restoreToCountSpin
    \/ \E m \in Matrices : setMatrix(m)
    \/ \E m \in Matrices : concat(m)
    \/ \E a \in ClipRectArgs : clipRect(a[1], a[2])
    \/ \E a \in ClipPathArgs : clipPath(a[1], a[2])

Next ==
    \/ NextCore
    \/ \E bitmap \in Bitmaps : setBitmap(bitmap)

Spec == Init /\ [][Next]_vars

SpecCore == Init /\ [][NextCore]_vars

SpecDraw == Init /\ [][NextDraw]_vars

SpecNest == Init /\ [][NextNest]_vars

---------------------------------------------------------------------------
(* Properties of save and restore *)

\* a clip region after a sequence of clip calls
RECURSIVE ApplyIssued(_, _)
ApplyIssued(region, es) ==
    IF es = <<>> THEN region
    ELSE ApplyIssued(ApplyOp(region, Head(es).dev, Head(es).op), Tail(es))

\* a clip call is in effect on a region that it would not narrow any further
InEffect(e, region) == ApplyOp(region, e.dev, e.op) = region

\* the state is the one a restore left that closed a frame opened by save
AfterRestoreOf(flagSets) ==
    /\ last.op = "restore"
    /\ last.closed.kind = "save"
    /\ last.closed.flags \in flagSets

\* C1: after the restore paired with a save whose flags hold Matrix and not
\* Clip, the matrix is the one in effect just before the save, and every clip
\* issued while that frame was on top is still in effect, as mapped by the
\* matrix that was current when it was issued.
MatrixSaveKeepsClips ==
    AfterRestoreOf({{Matrix}}) =>
        /\ TotalMatrix = last.closed.preMatrix
        /\ \A i \in 1..Len(last.closed.issued) : InEffect(last.closed.issued[i], Region)

\* a restore closed such a frame in which the matrix was moved and a clip,
\* issued under the moved matrix, emptied the clip region
MatrixSaveKeepsClipsSeen ==
    /\ AfterRestoreOf({{Matrix}})
    /\ last.matrix # last.closed.preMatrix
    /\ last.closed.issued # <<>>
    /\ last.closed.preRegion # {}
    /\ Region = {}

\* C2: after the restore paired with a save whose flags hold Clip and not
\* Matrix, the clip region is the one in effect just before the save and the
\* matrix is the one in effect just before the restore.
ClipSaveKeepsMatrix ==
    AfterRestoreOf({{Clip}}) =>
        /\ Region = last.closed.preRegion
        /\ TotalMatrix = last.matrix

\* a restore closed such a frame in which both the matrix and the clip region
\* were changed
ClipSaveKeepsMatrixSeen ==
    /\ AfterRestoreOf({{Clip}})
    /\ last.matrix # last.closed.preMatrix
    /\ last.region # last.closed.preRegion
    /\ TotalMatrix = last.matrix

\* C3: the restore paired with a save whose flags hold Matrix and Clip leaves
\* the matrix and the clip region as they were just before the save, whatever
\* was done inside the frame, partial saves included.
FullSaveRestoresAll ==
    AfterRestoreOf({MatrixClip}) =>
        /\ TotalMatrix = last.closed.preMatrix
        /\ Region = last.closed.preRegion

\* a restore closed a full frame, opened inside a partial frame, in which
\* both the matrix and the clip region were changed
FullSaveRestoresAllSeen ==
    /\ AfterRestoreOf({MatrixClip})
    /\ last.matrix # last.closed.preMatrix
    /\ last.region # last.closed.preRegion
    /\ mSaveStack # <<>>
    /\ Region = last.closed.preRegion

\* C4: of two directly nested frames that keep the clip, with clips issued in
\* the inner one only: after the inner restore the clip region is the one
\* before the inner save narrowed by the inner frame's clips, and after the
\* outer restore it is the one before the outer save narrowed by those same
\* clips, which the outer frame keeps as well.
NestedClipsTelescope ==
    /\ (/\ last.op = "restore"
        /\ KeepsClip(last.closed)
        /\ KeepsClip(open[Len(open)]))
       => Region = ApplyIssued(last.closed.preRegion, last.closed.kept \o last.closed.issued)
    /\ (/\ last.op = "restore"
        /\ KeepsClip(last.closed)
        /\ last.closed.issued = <<>>
        /\ last.closed.kept # <<>>)
       => Region = ApplyIssued(last.closed.preRegion, last.closed.kept)

\* the outer restore replayed the inner frame's clips, which leave the clip
\* region narrower than it was before the outer save
NestedClipsTelescopeSeen ==
    /\ last.op = "restore"
    /\ KeepsClip(last.closed)
    /\ last.closed.issued = <<>>
    /\ last.closed.kept # <<>>
    /\ last.replayed = Len(last.closed.kept)
    /\ Region # last.closed.preRegion

\* C4 as the specification words it: after the outer restore the clip region
\* is the one in effect before the outer save.
NestedClipsDiscarded ==
    (/\ last.op = "restore"
     /\ KeepsClip(last.closed)
     /\ last.closed.issued = <<>>
     /\ last.closed.kept # <<>>)
    => Region = last.closed.preRegion

\* the state is the one left by save(flags without Clip), clipRect(A),
\* clipRect(B, kIntersect), restore, with no other call in the frame
AfterTwoClipRects ==
    /\ AfterRestoreOf({{}, {Matrix}})
    /\ last.closed.kept = <<>>
    /\ Len(last.closed.issued) = 2
    /\ \A i \in 1..2 : /\ last.closed.issued[i].call = "clipRect"
                        /\ last.closed.issued[i].op = kIntersect
    /\ last.matrix = last.closed.preMatrix

\* C5: after save(flags without Clip), clipRect(A), clipRect(B, kIntersect),
\* restore, the clip region is the one before the save intersected with A and
\* with B: both stay in effect.
TwoClipRectsStay ==
    AfterTwoClipRects =>
        Region = ApplyIssued(last.closed.preRegion, last.closed.issued)

\* the sequence was run where A and B leave nothing of the clip region
TwoClipRectsStaySeen ==
    /\ AfterTwoClipRects
    /\ last.replayed = 2
    /\ last.closed.preRegion # {}
    /\ Region = {}

\* C5 as the specification words it: the clip region after the restore is the
\* one in effect before the save.
TwoClipRectsDiscarded ==
    AfterTwoClipRects => Region = last.closed.preRegion

\* C6: without setBitmap, the clip log is empty whenever the save stack holds
\* no record, and even whenever it holds no record that keeps the clip; so it
\* is empty once the outermost frame that keeps the clip is closed.
LogEmptyWithoutRecord ==
    /\ mSaveStack = <<>> => mClipStack = <<>>
    /\ (\A i \in 1..Len(mSaveStack) : ~preserveClip(mSaveStack[i])) => mClipStack = <<>>

\* a restore replayed log entries, among them entries kept from a nested
\* frame, and left both the save stack and the log empty
LogEmptyWithoutRecordSeen ==
    /\ last.op = "restore"
    /\ KeepsClip(last.closed)
    /\ last.closed.kept # <<>>
    /\ last.replayed > 0
    /\ mSaveStack = <<>>
    /\ mClipStack = <<>>

\* C7 as the specification words it: right after setBitmap the save stack
\* holds no record and the clip log holds no entry.
SetBitmapDiscardsStackAndLog ==
    last.op = "setBitmap" => (mSaveStack = <<>> /\ mClipStack = <<>>)

\* C8 as the specification words it: after setBitmap, whatever the bitmap,
\* the matrix and the clip region are those of the old canvas, the save count
\* is the baseline and no record is inherited.
SetBitmapCopiesAlways ==
    last.op = "setBitmap" =>
        /\ TotalMatrix = last.matrix
        /\ Region = last.region
        /\ getSaveCount(mCanvas) = 1
        /\ mSaveStack = <<>>

\* C9 as the specification words it: every restoreToCount returns; none is
\* left repeating a restore that lowers the save count no further.
RestoreToCountReturns == pc # "restoreToCount"

\* C10: restoreToCount(n) called at a save count of n or less returns with
\* the canvas, the save stack and the clip log unchanged; and a restoreToCount(n)
\* that returned leaves a save count of n or less, where a second one is such
\* a call.
RestoreToCountIdempotent ==
    [][last'.op = "restoreToCount" =>
          /\ getSaveCount(mCanvas) <= last'.n =>
                 /\ UNCHANGED <<mCanvas, mSaveStack, mClipStack>>
                 /\ pc' = "idle"
          /\ pc' = "idle" => getSaveCount(mCanvas') <= last'.n]_vars

\* restoreToCount(n) was called at a save count of n, above the baseline,
\* with a record on the save stack and an entry in the clip log
RestoreToCountIdempotentSeen ==
    /\ last.op = "restoreToCount"
    /\ last.count = last.n
    /\ last.count > 1
    /\ getSaveCount(mCanvas) = last.n
    /\ mSaveStack # <<>>
    /\ mClipStack # <<>>

\* the records of a save stack made at a save count of n or less
RecordsUpTo(ss, n) ==
    LET Earlier(rec) == rec.saveCount <= n
    IN  SelectSeq(ss, Earlier)

\* C11: save returns the save count it found, c; while the frame it opened is
\* open, restoreToCount(c) returns with the save count at c, the one just
\* before that save, and with the save stack cut down to the records made
\* before that save.
RestoreToSaveResult ==
    [][/\ last'.op = "save" => last'.ret = getSaveCount(mCanvas)
       /\ (/\ last'.op = "restoreToCount"
           /\ last'.n >= 1
           /\ last'.n < Len(open)
           /\ open[last'.n + 1].kind = "save")
          => /\ pc' = "idle"
             /\ getSaveCount(mCanvas') = last'.n
             /\ mSaveStack' = RecordsUpTo(mSaveStack, last'.n)]_vars

\* restoreToCount(c) closed the partial frame that the save returning c had
\* opened, popped its record and left an earlier record on the stack
RestoreToSaveResultSeen ==
    /\ last.op = "restoreToCount"
    /\ last.closed.kind = "save"
    /\ last.closed.flags # MatrixClip
    /\ last.count > last.n
    /\ getSaveCount(mCanvas) = last.n
    /\ mSaveStack # <<>>

\* C12: saveLayer and saveLayerAlpha, whatever the flags, push a backend
\* frame, push no record and leave the clip log as it is; the restore that
\* closes a layer frame is the backend restore alone: the save stack and the
\* log stay as they are, no matrix is reinstalled and no clip is replayed.
LayersKeepNoRecord ==
    [][/\ last'.op \in {"saveLayer", "saveLayerAlpha"}
          => /\ UNCHANGED <<mSaveStack, mClipStack>>
             /\ getSaveCount(mCanvas') = getSaveCount(mCanvas) + 1
       /\ (/\ last'.op = "restore"
           /\ Len(open) > 1
           /\ open[Len(open)].kind = "layer")
          => /\ UNCHANGED <<mSaveStack, mClipStack>>
             /\ mCanvas' = SkRestore(mCanvas)]_vars

\* a restore closed a layer, opened with flags that hold neither Matrix nor
\* Clip inside a partial frame with a logged clip, after the matrix and the
\* clip region were changed in the layer
LayersKeepNoRecordSeen ==
    /\ last.op = "restore"
    /\ last.closed.kind = "layer"
    /\ last.closed.flags = {}
    /\ last.matrix # TotalMatrix
    /\ last.region # Region
    /\ mSaveStack # <<>>
    /\ mClipStack # <<>>

\* the draw operations that test the paint themselves, and all of them
CheckedDrawOps == {"drawPoints", "drawLines", "drawRect", "drawRegion", "drawRoundRect",
                   "drawCircle", "drawOval", "drawArc", "drawPath"}
DrawOps == CheckedDrawOps \cup {"drawPaint", "drawPoint", "drawLine"}

\* the draw was handed a paint with nothing to draw, or too short an array
NothingAsked ==
    \/ nothingToDraw(last.arg)
    \/ last.op = "drawPoints" /\ last.n < 2
    \/ last.op = "drawLines" /\ last.n < 4

ClipStep == last'.op \in {"clipRect", "clipPath"}

\* the clip call of the step appended one entry to the log
ClipLogged ==
    /\ Len(mClipStack') = Len(mClipStack) + 1
    /\ SubSeq(mClipStack', 1, Len(mClipStack)) = mClipStack

\* C14: a clip call appends one entry to the log, holding the matrix current
\* at the call, exactly when a current record exists that keeps the clip (its
\* Clip flag is absent); it appends nothing when there is no current record
\* or the current record has the Clip flag.  Either way the backend gets the
\* clip, under the matrix that was logged, and its matrix is left alone.
ClipLoggedUnderKeptClip ==
    [][ClipStep =>
          LET rec == currentSaveRec(mCanvas, mSaveStack)
              logs == rec # NULL /\ preserveClip(rec)
              e == mClipStack'[Len(mClipStack')]
          IN  /\ logs => /\ ClipLogged
                         /\ e.matrix = TotalMatrix
                         /\ Region' = ApplyOp(Region, MapShape(e.pts, e.matrix), e.op)
              /\ ~logs => mClipStack' = mClipStack
              /\ Region' \subseteq Region
              /\ TotalMatrix' = TotalMatrix]_vars

\* a clip call under a moved matrix was logged in a frame that keeps the clip,
\* after an earlier entry, and emptied the clip region
ClipLoggedUnderKeptClipSeen ==
    /\ last.op = "clipRect"
    /\ currentSaveRec(mCanvas, mSaveStack) # NULL
    /\ preserveClip(currentSaveRec(mCanvas, mSaveStack))
    /\ Len(mClipStack) = 2
    /\ mClipStack[2].matrix = TotalMatrix
    /\ TotalMatrix # Identity
    /\ open[Len(open)].issued # <<>>
    /\ last.ret = 0

\* C14 as the specification words it: a clip call appends an entry exactly
\* when a current record exists whose preserveClip is false.
ClipLoggedUnderDroppedClip ==
    [][ClipStep =>
          LET rec == currentSaveRec(mCanvas, mSaveStack)
          IN  ClipLogged <=> (rec # NULL /\ ~preserveClip(rec))]_vars

\* the top record of save stack ss was made at the save count of canvas c
TopIsCurrent(c, ss) == ss # <<>> /\ ss[Len(ss)].saveCount = SkGetSaveCount(c)

\* the top record of ss is current on c and keeps the clip
TopKeepsClip(c, ss) == TopIsCurrent(c, ss) /\ ~(Clip \in ss[Len(ss)].saveFlags)

\* C15: a restore that closes a frame keeping the clip replays the log from
\* the record's index i; the log is left whole exactly when the record that
\* is current afterwards keeps the clip too; otherwise (no record, a top
\* record made at another save count, or a current record with the Clip flag)
\* the log is cut down to its first i entries.
ReplayedRangeKeptOrErased ==
    [][(last'.op = "restore" /\ TopKeepsClip(mCanvas, mSaveStack)) =>
          LET i == mSaveStack[Len(mSaveStack)].clipIndex
          IN  IF TopKeepsClip(mCanvas', mSaveStack')
              THEN mClipStack' = mClipStack
              ELSE mClipStack' = SubSeq(mClipStack, 1, i)]_vars

\* a restore replayed and erased the entries of a frame opened inside a full
\* frame: the top record, which keeps the clip, was made at a lower save
\* count, and the entry it logged itself is still in the log
ReplayedRangeKeptOrErasedSeen ==
    /\ last.op = "restore"
    /\ KeepsClip(last.closed)
    /\ last.replayed > 0
    /\ mSaveStack # <<>>
    /\ mSaveStack[Len(mSaveStack)].saveCount < getSaveCount(mCanvas)
    /\ ~(Clip \in mSaveStack[Len(mSaveStack)].saveFlags)
    /\ Len(mClipStack) = 1

\* a clip region narrowed by log entries in their order, each mapped by the
\* matrix it was logged with
RECURSIVE ReplayRegion(_, _)
ReplayRegion(region, clips) ==
    IF clips = <<>> THEN region
    ELSE ReplayRegion(ApplyOp(region, MapShape(Head(clips).pts, Head(clips).matrix),
                              Head(clips).op),
                      Tail(clips))

\* C16: applyPersistentClips, from any start index of the log (its end
\* included), narrows the clip region by the entries from that index on, in
\* log order and each under its own matrix, and returns with the matrix it
\* was called with; so after a restore that replayed clips the matrix is the
\* one restore installed, not that of a replayed entry.
ReplayLeavesMatrix ==
    /\ \A i \in 0..Len(mClipStack) :
          LET r == applyPersistentClips(mCanvas, mSaveStack, mClipStack, i)
          IN  /\ SkGetTotalMatrix(r.canvas) = TotalMatrix
              /\ SkClipRegion(r.canvas) =
                     ReplayRegion(Region, SubSeq(mClipStack, i + 1, Len(mClipStack)))
              /\ SkGetSaveCount(r.canvas) = SkGetSaveCount(mCanvas)
    /\ (last.op = "restore" /\ KeepsClip(last.closed)) =>
          TotalMatrix = IF Matrix \in last.closed.flags
                        THEN last.closed.preMatrix ELSE last.matrix

\* a restore replayed two entries logged under different matrices, which are
\* still in the log, and left the matrix of the frame it closed
ReplayLeavesMatrixSeen ==
    /\ last.op = "restore"
    /\ KeepsClip(last.closed)
    /\ last.replayed = 2
    /\ Len(mClipStack) = 2
    /\ mClipStack[1].matrix # mClipStack[2].matrix
    /\ TotalMatrix = last.matrix
    /\ TotalMatrix # mClipStack[2].matrix

\* C17: save(flags) leaves the clip log as it is; when flags hold both Matrix
\* and Clip it pushes no record; otherwise it pushes one record, holding the
\* backend's save count after the save, the Matrix and Clip bits of flags (an
\* absent bit asks to keep that aspect) and the length of the log.
SavePushesPartialRecord ==
    [][last'.op = "save" =>
          LET flags == open'[Len(open')].flags
              rec == mSaveStack'[Len(mSaveStack')]
          IN  /\ mClipStack' = mClipStack
              /\ getSaveCount(mCanvas') = getSaveCount(mCanvas) + 1
              /\ flags = MatrixClip => mSaveStack' = mSaveStack
              /\ flags # MatrixClip =>
                     /\ Len(mSaveStack') = Len(mSaveStack) + 1
                     /\ SubSeq(mSaveStack', 1, Len(mSaveStack)) = mSaveStack
                     /\ rec.saveCount = getSaveCount(mCanvas')
                     /\ preserveMatrix(rec) <=> ~(Matrix \in flags)
                     /\ preserveClip(rec) <=> ~(Clip \in flags)
                     /\ rec.saveFlags \subseteq MatrixClip
                     /\ rec.clipIndex = Len(mClipStack)]_vars

\* a save pushed a second record, over a log that holds an entry
SavePushesPartialRecordSeen ==
    /\ last.op = "save"
    /\ Len(mSaveStack) = 2
    /\ mSaveStack[2].saveCount = getSaveCount(mCanvas)
    /\ mSaveStack[2].clipIndex = Len(mClipStack)
    /\ mSaveStack[2].clipIndex > mSaveStack[1].clipIndex
    /\ open[Len(open)].flags = mSaveStack[2].saveFlags

\* C18: a restore called when there is no current record (the save stack is
\* empty, or its top record was made at another save count) is the backend
\* restore alone: the save stack and the clip log stay as they are, and the
\* frame below comes back with its own matrix and clip.
PlainRestoreWithoutRecord ==
    [][(last'.op = "restore" /\ ~TopIsCurrent(mCanvas, mSaveStack)) =>
          /\ mCanvas' = SkRestore(mCanvas)
          /\ UNCHANGED <<mSaveStack, mClipStack>>]_vars

\* a restore closed a full frame above a partial one: the top record, made
\* at the lower save count, and the log entry are still there, and the matrix
\* and the clip region changed in the frame are rolled back
PlainRestoreWithoutRecordSeen ==
    /\ last.op = "restore"
    /\ last.closed.kind = "save"
    /\ last.closed.flags = MatrixClip
    /\ mSaveStack # <<>>
    /\ mSaveStack[Len(mSaveStack)].saveCount = last.count - 1
    /\ mClipStack # <<>>
    /\ last.matrix # TotalMatrix
    /\ last.region # Region

\* C19: in every state the save count of the top record is at most the
\* backend's save count (the assertion of currentSaveRec), and the records
\* below it were made at lower save counts, above the baseline.
TopRecordNotAhead ==
    /\ mSaveStack # <<>> => mSaveStack[Len(mSaveStack)].saveCount <= getSaveCount(mCanvas)
    /\ \A i \in 1..Len(mSaveStack) :
          /\ mSaveStack[i].saveCount > 1
          /\ i > 1 => mSaveStack[i - 1].saveCount < mSaveStack[i].saveCount

\* a restore made the record of the enclosing partial frame current again
TopRecordNotAheadSeen ==
    /\ last.op = "restore"
    /\ last.closed.kind = "save"
    /\ last.closed.flags # MatrixClip
    /\ TopIsCurrent(mCanvas, mSaveStack)

\* C20: in every state the log index of every record is at most the length
\* of the log, and the indices do not decrease from the bottom of the save
\* stack to its top; so the index a restore hands to the replay is within the
\* log (the assertion of applyPersistentClips).
LogIndicesWithinLog ==
    \A i \in 1..Len(mSaveStack) :
        /\ mSaveStack[i].clipIndex <= Len(mClipStack)
        /\ i > 1 => mSaveStack[i - 1].clipIndex <= mSaveStack[i].clipIndex

\* a restore replayed and erased entries above a record whose log index is
\* now the length of the log, with an entry below it left in the log
LogIndicesWithinLogSeen ==
    /\ last.op = "restore"
    /\ last.replayed > 0
    /\ mSaveStack # <<>>
    /\ mSaveStack[Len(mSaveStack)].clipIndex = Len(mClipStack)
    /\ mClipStack # <<>>

\* the frame was opened by a save that asks to keep the matrix or the clip
PartialFrame(f) == f.kind = "save" /\ f.flags # MatrixClip

\* the save counts of the open frames of that kind
OpenPartials == {i \in 1..Len(open) : PartialFrame(open[i])}

\* C21: in every state the save stack holds at most as many records as the
\* backend's save count, their save counts increase strictly from the bottom
\* to the top, and they are the save counts of the frames opened by a partial
\* save that are still open, each record with the flags of its frame; so the
\* top record is that of the innermost open partial frame.
RecordsMatchOpenFrames ==
    /\ Len(mSaveStack) <= getSaveCount(mCanvas)
    /\ \A i \in 2..Len(mSaveStack) : mSaveStack[i - 1].saveCount < mSaveStack[i].saveCount
    /\ {mSaveStack[i].saveCount : i \in 1..Len(mSaveStack)} = OpenPartials
    /\ \A i \in 1..Len(mSaveStack) :
           /\ mSaveStack[i].saveCount <= getSaveCount(mCanvas)
           /\ mSaveStack[i].saveFlags = open[mSaveStack[i].saveCount].flags
    /\ mSaveStack # <<>> =>
           \A j \in OpenPartials : j <= mSaveStack[Len(mSaveStack)].saveCount

\* a restore closed a full frame or a layer opened inside a partial frame:
\* the record of the partial frame is the top one and current again
RecordsMatchOpenFramesSeen ==
    /\ last.op = "restore"
    /\ last.closed.kind \in {"save", "layer"}
    /\ ~PartialFrame(last.closed)
    /\ Len(mSaveStack) = 1
    /\ PartialFrame(open[Len(open)])
    /\ mSaveStack[1].saveCount = getSaveCount(mCanvas)

\* C22: a restore pops a record exactly when the frame it closes was opened
\* by a partial save, and the record it pops is the one that save pushed (it
\* holds the save count and the flags of that frame); a restore that closes a
\* full frame or a layer, or that finds the baseline, leaves the save stack
\* as it is.  restoreToCount, which closes frames by restore alone, leaves
\* the records of the frames that are still open and no other.
RecordPoppedWithItsFrame ==
    [][/\ last'.op = "restore" =>
              LET f == open[Len(open)]
                  rec == mSaveStack[Len(mSaveStack)]
              IN  IF Len(open) > 1 /\ PartialFrame(f)
                  THEN /\ mSaveStack # <<>>
                       /\ mSaveStack' = SubSeq(mSaveStack, 1, Len(mSaveStack) - 1)
                       /\ rec.saveCount = Len(open)
                       /\ rec.saveFlags = f.flags
                       /\ getSaveCount(mCanvas') = rec.saveCount - 1
                  ELSE mSaveStack' = mSaveStack
       /\ last'.op = "restoreToCount" =>
              mSaveStack' = RecordsUpTo(mSaveStack, getSaveCount(mCanvas'))]_vars

\* a restore closed a partial frame nested in another one and popped the
\* upper of the two records
RecordPoppedWithItsFrameSeen ==
    /\ last.op = "restore"
    /\ PartialFrame(last.closed)
    /\ last.count = 3
    /\ getSaveCount(mCanvas) = 2
    /\ Len(mSaveStack) = 1
    /\ mSaveStack[1].saveCount = 2
    /\ mSaveStack[1].saveFlags # last.closed.flags

\* the innermost open frame was opened by a full save or by a saveLayer
InnermostFull == Len(open) > 1 /\ ~PartialFrame(open[Len(open)])

\* C23: a clip call made while the innermost open frame is a full frame or a
\* layer appends nothing to the log, whatever the frames around it; the
\* restore that closes a full frame or a layer leaves the clip region that
\* was in effect before the frame was opened, and the log as it is; and the
\* restore that closes a frame keeping the clip leaves the region before its
\* save narrowed by the clips issued while it, or a frame keeping the clip
\* directly inside it, was the innermost one, and by no other clip.
ClipInFullFrameNotLogged ==
    [][/\ (ClipStep /\ InnermostFull) =>
              /\ mClipStack' = mClipStack
              /\ Region' \subseteq Region
       /\ (last'.op = "restore" /\ InnermostFull) =>
              /\ Region' = open[Len(open)].preRegion
              /\ mClipStack' = mClipStack
       /\ (last'.op = "restore" /\ Len(open) > 1 /\ KeepsClip(open[Len(open)])) =>
              LET f == open[Len(open)]
              IN  Region' = ApplyIssued(f.preRegion, f.kept \o f.issued)]_vars

\* a restore closed a full frame or a layer, opened inside a frame that keeps
\* the clip and has logged a clip of its own: a clip issued in the closed
\* frame had emptied the clip region, the log holds the outer frame's entry
\* alone, and the region is the one from before the closed frame again
ClipInFullFrameNotLoggedSeen ==
    /\ last.op = "restore"
    /\ last.closed.kind \in {"save", "layer"}
    /\ ~PartialFrame(last.closed)
    /\ last.region = {}
    /\ Region # {}
    /\ KeepsClip(open[Len(open)])
    /\ Len(open[Len(open)].issued) = 1
    /\ Len(mClipStack) = 1
    /\ TopKeepsClip(mCanvas, mSaveStack)

\* the innermost open frame was opened by a save with neither Matrix nor Clip
InnermostKeepsAll ==
    /\ Len(open) > 1
    /\ open[Len(open)].kind = "save"
    /\ open[Len(open)].flags = {}

\* C24: the restore paired with a save whose flags hold neither Matrix nor
\* Clip pops the frame and its record, and leaves the matrix and the clip
\* region as they were just before the restore, with a save count one lower;
\* the log is left whole or cut down to the record's index, never longer.
KeepAllRestoreTransparent ==
    [][(last'.op = "restore" /\ InnermostKeepsAll) =>
          /\ TotalMatrix' = TotalMatrix
          /\ Region' = Region
          /\ getSaveCount(mCanvas') = getSaveCount(mCanvas) - 1
          /\ mSaveStack' = SubSeq(mSaveStack, 1, Len(mSaveStack) - 1)
          /\ mClipStack' \in {mClipStack,
                               SubSeq(mClipStack, 1, mSaveStack[Len(mSaveStack)].clipIndex)}]_vars

\* a restore closed such a frame in which the matrix was moved and a clip
\* emptied the clip region: the backend restore alone would have brought
\* both back, and both are as they were just before the restore
KeepAllRestoreTransparentSeen ==
    /\ AfterRestoreOf({{}})
    /\ last.matrix # last.closed.preMatrix
    /\ last.closed.preRegion # {}
    /\ last.region = {}
    /\ last.replayed > 0
    /\ TotalMatrix = last.matrix
    /\ Region = last.region
    /\ getSaveCount(mCanvas) = last.count - 1

====
